---- MODULE Spec2Model ----
(***************************************************************************)
(* Model of src/src/components/SpeedMonitor.tsx: the SpeedMonitor React    *)
(* component (tier table, probe timing, median aggregation, the two        *)
(* interval timers and the start / stop handlers).                         *)
(*                                                                         *)
(* Numbers.  JavaScript numbers are modelled by integers in fixed units:   *)
(*   - a probe speed (the value measureSingleSpeed returns, in Mbps) is    *)
(*     kept in units of 10^-4 Mbps;                                        *)
(*   - a displayed speed (after toFixed(2)), the tier bounds and every     *)
(*     argument of findTierForSpeed are kept in units of 0.01 Mbps.        *)
(* A value that is `null` in the source is the empty sequence << >>, a     *)
(* non-null value x is the one-element sequence <<x>>.                     *)
(* Icons are emoji in the source; they are named by ASCII words here.      *)
(***************************************************************************)
EXTENDS Integers, Sequences, FiniteSets, Bags, TLC

VARIABLES
    isMonitoring,     \* useState(false)
    currentSpeed,     \* useState<number | null>(null), in 0.01 Mbps
    lastComment,      \* useState("Ready to roast your Wi-Fi?")
    timeLeft,         \* useState(30)
    isLoading,        \* useState(false)
    currentIcon,      \* useState(globe)
    speedHistory,     \* useState<number[]>([]), in 0.01 Mbps
    intervalRef,      \* useRef(null): handle of the measurement timer
    countdownRef,     \* useRef(null): handle of the countdown timer
    intervalTimers,   \* live setInterval(measureSpeed, checkInterval) handles
    countdownTimers,  \* live countdown handles -> the closure's `timeLeft`
    runs,             \* measureSpeed calls suspended at an await (a bag)
    pushed,           \* history variable: samples pushed since the last
                      \* setSpeedHistory([]), counted up to HistoryLimit + 1
    origin,           \* history variable: for each sample of speedHistory,
                      \* whether its measurement began before the latest
                      \* startMonitoring
    ticks,            \* history variable: firings of the live countdown
                      \* timer since it was set
    tracked,          \* history variable: "none", or "running" / "finished"
                      \* for the one measureSpeed call that is followed
    call              \* harness for the pure functions: [fn, arg, ret]

vars == <<isMonitoring, currentSpeed, lastComment, timeLeft, isLoading,
          currentIcon, speedHistory, intervalRef, countdownRef,
          intervalTimers, countdownTimers, runs, pushed, origin, ticks,
          tracked, call>>

ui == <<isMonitoring, currentSpeed, lastComment, timeLeft, isLoading,
        currentIcon, speedHistory>>

timers == <<intervalRef, countdownRef, intervalTimers, countdownTimers>>

----------------------------------------------------------------------------
(* Bounds of the model                                                     *)

\* measureSpeed calls that may be suspended at the same time
MaxRuns == 2

\* samples a session may collect in the specification Spec
MaxSamples == 2

\* firings of one countdown timer that are followed in SpecCountdown
MaxTicks == 61

\* firings of one countdown timer that are followed where they interleave
\* with measurements (Spec, SpecHistory)
MaxTicksInterleaved == 1

\* largest argument (0.01 Mbps) given to findTierForSpeed in SpecTier
MaxSpeedArg == 2100

\* how far below zero (0.01 Mbps) the arguments of SpecTier reach
MaxNegativeArg == 20

----------------------------------------------------------------------------
(* Values                                                                  *)

null == << >>

Some(x) == <<x>>

\* 0.01 Mbps units per Mbps: toFixed(2) keeps two decimals
Scale == 100

\* maxSpeed: Infinity
Infinity == 0 - 1

min(a, b) == IF a < b THEN a ELSE b

Range(s) == {s[i] : i \in DOMAIN s}

----------------------------------------------------------------------------
(* The tier table                                                          *)

speedTiers ==
    << [minSpeed |-> 0,          maxSpeed |-> 3 * Scale,
        comment  |-> "Are you serious right now?",
        audioSrc |-> "/sounds/error.mp3",
        color    |-> "text-destructive", icon |-> "skull"],
       [minSpeed |-> 3 * Scale,  maxSpeed |-> 5 * Scale,
        comment  |-> "My grandma's dial-up was faster.",
        audioSrc |-> "/sounds/slow.mp3",
        color    |-> "text-destructive", icon |-> "sleeping"],
       [minSpeed |-> 5 * Scale,  maxSpeed |-> 10 * Scale,
        comment  |-> "It's... acceptable.",
        audioSrc |-> "/sounds/okay.mp3",
        color    |-> "text-warning", icon |-> "neutral"],
       [minSpeed |-> 10 * Scale, maxSpeed |-> 15 * Scale,
        comment  |-> "Okay, now we're talking!",
        audioSrc |-> "/sounds/good.mp3",
        color    |-> "text-success", icon |-> "smiling"],
       [minSpeed |-> 15 * Scale, maxSpeed |-> Infinity,
        comment  |-> "UNLIMITED POWER!",
        audioSrc |-> "/sounds/unlimited.mp3",
        color    |-> "text-primary", icon |-> "rocket"] >>

\* BelowMax with the upper bound included (<= instead of <)
BelowMaxInclusive(speedMbps, maxSpeed) ==
    IF maxSpeed = Infinity THEN TRUE ELSE speedMbps <= maxSpeed

\* speedMbps < tier.maxSpeed, where maxSpeed may be Infinity
BelowMax(speedMbps, maxSpeed) ==
    IF maxSpeed = Infinity THEN TRUE ELSE speedMbps < maxSpeed

\* TierMatches whose lower end is exclusive
TierMatchesStrictMin(tier, speedMbps) ==
    speedMbps > tier.minSpeed /\ BelowMax(speedMbps, tier.maxSpeed)

\* tier => speedMbps >= tier.minSpeed && speedMbps < tier.maxSpeed
TierMatches(tier, speedMbps) ==
    speedMbps >= tier.minSpeed /\ BelowMax(speedMbps, tier.maxSpeed)

\* speedTiers.find(...) || null : the first tier of the table that matches
findTierForSpeed(speedMbps) ==
    LET hits == {i \in 1..Len(speedTiers) : TierMatches(speedTiers[i], speedMbps)}
    IN  IF hits = {} THEN null
        ELSE Some(speedTiers[CHOOSE i \in hits : \A j \in hits : i <= j])

\* The comment and icon playMemeAudio sets and the file it plays
playMemeAudio(speedMbps) ==
    LET tier == findTierForSpeed(speedMbps)
    IN  IF tier = null
        THEN [lastComment |-> "No comment for this speed.",
              currentIcon |-> "question", audio |-> null]
        ELSE [lastComment |-> tier[1].comment,
              currentIcon |-> tier[1].icon,
              audio       |-> Some(tier[1].audioSrc)]

----------------------------------------------------------------------------
(* Probes                                                                  *)

\* checkInterval / 1000: seconds between two measurements
checkIntervalSeconds == 30

\* speedHistory keeps the last 10 results: .slice(-10)
HistoryLimit == 10

\* durationInSeconds < 0.01, in milliseconds
MinDurationMs == 10

\* `return 1000` for a probe too fast to time, in 10^-4 Mbps
TooFastSpeed == 1000 * 10000

testFiles ==
    << [url |-> "https://httpbin.org/bytes/500000",  size |-> 500000],
       [url |-> "https://httpbin.org/bytes/1000000", size |-> 1000000],
       [url |-> "https://httpbin.org/bytes/2000000", size |-> 2000000] >>

\* What the network does to one probe: the fetch (or blob()) promise
\* rejects, the response is not OK, or the body arrives after `duration` ms.
Rejected == [kind |-> "rejected"]

HttpError == [kind |-> "response", ok |-> FALSE]

Loaded(ms) == [kind |-> "response", ok |-> TRUE, duration |-> ms]

\* measureSingleSpeed: [threw |-> TRUE] or the speed in 10^-4 Mbps.
\* (size * 8) / durationInSeconds / 1_000_000 Mbps = size * 80 / ms units.
measureSingleSpeed(testFile, outcome) ==
    IF outcome.kind = "rejected" THEN [threw |-> TRUE]
    ELSE IF ~outcome.ok THEN [threw |-> TRUE]
    ELSE IF outcome.duration < MinDurationMs
         THEN [threw |-> FALSE, value |-> TooFastSpeed]
         ELSE [threw |-> FALSE,
               value |-> (testFile.size * 8 * 10) \div outcome.duration]

----------------------------------------------------------------------------
(* Aggregation                                                             *)

RECURSIVE InsertSorted(_, _)
\* x put before the first element of the ascending list s that exceeds it
InsertSorted(x, s) ==
    IF s = << >> THEN <<x>>
    ELSE IF x <= Head(s) THEN <<x>> \o s
    ELSE <<Head(s)>> \o InsertSorted(x, Tail(s))

\* SortAscending with the sort left out
SortAscendingMissing(s) == s

RECURSIVE SortAscending(_)
\* speeds.sort((a, b) => a - b)
SortAscending(s) ==
    IF s = << >> THEN << >> ELSE InsertSorted(Head(s), SortAscending(Tail(s)))

\* Twice medianSpeed (kept doubled so that the mean of two stays integral).
\* JavaScript index k is TLA+ index k + 1.
medianSpeed2(speeds) ==
    LET sorted == SortAscending(speeds)
        n      == Len(sorted)
    IN  IF n % 2 = 0
        THEN sorted[n \div 2] + sorted[n \div 2 + 1]
        ELSE 2 * sorted[n \div 2 + 1]

\* Number(medianSpeed.toFixed(2)): twice a speed in 10^-4 Mbps, rounded to
\* the nearest 0.01 Mbps, halves up
toFixed2(twice) == (twice + 100) \div 200

finalSpeed(speeds) == toFixed2(medianSpeed2(speeds))

\* pushHistory with slice(0, 10): the first ten samples are kept
pushHistoryKeepsFirst(prev, sample) ==
    LET all == Append(prev, sample)
    IN  IF Len(all) <= HistoryLimit THEN all ELSE SubSeq(all, 1, HistoryLimit)

\* [...prev, finalSpeed].slice(-10)
pushHistory(prev, sample) ==
    LET all == Append(prev, sample)
        n   == Len(all)
    IN  IF n <= HistoryLimit THEN all
        ELSE SubSeq(all, n - HistoryLimit + 1, n)

----------------------------------------------------------------------------
(* The component                                                           *)

NoCall == [fn |-> "none"]

InitComponent ==
    /\ isMonitoring = FALSE
    /\ currentSpeed = null
    /\ lastComment = "Ready to roast your Wi-Fi?"
    /\ timeLeft = checkIntervalSeconds
    /\ isLoading = FALSE
    /\ currentIcon = "globe"
    /\ speedHistory = << >>
    /\ intervalRef = null
    /\ countdownRef = null
    /\ intervalTimers = {}
    /\ countdownTimers = << >>
    /\ runs = EmptyBag
    /\ pushed = 0
    /\ origin = << >>
    /\ ticks = 0
    /\ tracked = "none"

Init == InitComponent /\ call = NoCall

\* A handle setInterval has not handed out to a live timer
FreshTimer(live) == CHOOSE id \in 1..(Cardinality(live) + 1) : id \notin live

LiveTimers == intervalTimers \cup DOMAIN countdownTimers

\* A suspended measureSpeed call: it awaits the fetch of testFiles[idx] and
\* has collected `speeds`.  `stale` (the call began before the latest
\* startMonitoring) and `mark` (the call is the one followed) are history
\* fields the code does not have.
NewRun == [idx |-> 1, speeds |-> << >>, stale |-> FALSE, mark |-> FALSE]

\* the calls in flight, as they are once a new session has begun
MarkStale(inFlight) ==
    LET Old(r)    == [r EXCEPT !.stale = TRUE]
        Fresh(r)  == [r EXCEPT !.stale = FALSE]
        Copies(r) == IF r \in DOMAIN inFlight THEN inFlight[r] ELSE 0
    IN  [s \in {Old(r) : r \in BagToSet(inFlight)} |->
            Copies(s) + Copies(Fresh(s))]

\* measureSpeed up to its first await: setIsLoading(true), speeds = [] and
\* the fetch of testFiles[0] (TLA+ index 1) is issued
BeginMeasureSpeed(inFlight) ==
    /\ isLoading' = TRUE
    /\ runs' = inFlight (+) SetToBag({NewRun})

\* MeasureFailed without the call of playMemeAudio(0)
MeasureFailedNoTier ==
    /\ currentSpeed' = Some(0)
    /\ lastComment' = "Connection error - check your internet!"
    /\ currentIcon' = "red circle"
    /\ isLoading' = FALSE
    /\ UNCHANGED <<speedHistory, pushed>>

\* catch: setCurrentSpeed(0), the fallback comment and icon, then
\* playMemeAudio(0), which sets the comment and icon again; finally
MeasureFailed ==
    /\ currentSpeed' = Some(0)
    /\ lastComment' = playMemeAudio(0).lastComment
    /\ currentIcon' = playMemeAudio(0).currentIcon
    /\ isLoading' = FALSE
    /\ UNCHANGED <<speedHistory, pushed>>

\* MeasureSucceeded without the finally block
MeasureSucceededKeepsLoading(speeds) ==
    /\ speedHistory' = pushHistory(speedHistory, finalSpeed(speeds))
    /\ pushed' = min(pushed + 1, HistoryLimit + 1)
    /\ currentSpeed' = Some(finalSpeed(speeds))
    /\ lastComment' = playMemeAudio(finalSpeed(speeds)).lastComment
    /\ currentIcon' = playMemeAudio(finalSpeed(speeds)).currentIcon
    /\ isLoading' = isLoading

\* median, toFixed(2), setSpeedHistory, updateUI; finally
MeasureSucceeded(speeds) ==
    /\ speedHistory' = pushHistory(speedHistory, finalSpeed(speeds))
    /\ pushed' = min(pushed + 1, HistoryLimit + 1)
    /\ currentSpeed' = Some(finalSpeed(speeds))
    /\ lastComment' = playMemeAudio(finalSpeed(speeds)).lastComment
    /\ currentIcon' = playMemeAudio(finalSpeed(speeds)).currentIcon
    /\ isLoading' = FALSE

\* FinishMeasureSpeed that drops the result once monitoring has stopped
FinishMeasureSpeedGuarded(speeds) ==
    IF ~isMonitoring
    THEN /\ isLoading' = FALSE
         /\ UNCHANGED <<currentSpeed, lastComment, currentIcon,
                        speedHistory, pushed>>
    ELSE IF speeds = << >> THEN MeasureFailed ELSE MeasureSucceeded(speeds)

\* The rest of measureSpeed once the loop is over:
\* if (speeds.length === 0) throw ...
FinishMeasureSpeed(speeds) ==
    IF speeds = << >> THEN MeasureFailed ELSE MeasureSucceeded(speeds)

\* CollectSpeed that counts a failed probe as a speed of 0
CollectSpeedCountsFailure(speeds, res) ==
    IF res.threw THEN Append(speeds, 0) ELSE Append(speeds, res.value)

\* One turn of the loop over testFiles: try { speeds.push(await
\* measureSingleSpeed(testFile)) } catch { /* continue with other tests */ }
CollectSpeed(speeds, res) ==
    IF res.threw THEN speeds ELSE Append(speeds, res.value)

\* ProbeDone that starts the measurement again when every probe failed
ProbeDoneRetry(r, outcome) ==
    /\ r \in BagToSet(runs)
    /\ LET res    == measureSingleSpeed(testFiles[r.idx], outcome)
           speeds == CollectSpeed(r.speeds, res)
       IN  IF r.idx < Len(testFiles)
           THEN /\ runs' = (runs (-) SetToBag({r}))
                              (+) SetToBag({[r EXCEPT !.idx = r.idx + 1,
                                                      !.speeds = speeds]})
                /\ UNCHANGED <<ui, pushed, origin, tracked>>
           ELSE /\ runs' = IF speeds = << >>
                           THEN (runs (-) SetToBag({r}))
                                    (+) SetToBag({[r EXCEPT !.idx = 1]})
                           ELSE runs (-) SetToBag({r})
                /\ FinishMeasureSpeed(speeds)
                /\ origin' = IF speeds = << >> THEN origin
                             ELSE pushHistory(origin, r.stale)
                /\ tracked' = IF r.mark THEN "finished" ELSE tracked
                /\ UNCHANGED <<isMonitoring, timeLeft>>
    /\ UNCHANGED <<timers, ticks, call>>

\* The continuation of measureSpeed after the await of probe r.idx settles
\* with `outcome`: push or warn, then issue the next probe or finish.
ProbeDone(r, outcome) ==
    /\ r \in BagToSet(runs)
    /\ LET res    == measureSingleSpeed(testFiles[r.idx], outcome)
           speeds == CollectSpeed(r.speeds, res)
       IN  IF r.idx < Len(testFiles)
           THEN /\ runs' = (runs (-) SetToBag({r}))
                              (+) SetToBag({[r EXCEPT !.idx = r.idx + 1,
                                                      !.speeds = speeds]})
                /\ UNCHANGED <<ui, pushed, origin, tracked>>
           ELSE /\ runs' = runs (-) SetToBag({r})
                /\ FinishMeasureSpeed(speeds)
                /\ origin' = IF speeds = << >> THEN origin
                             ELSE pushHistory(origin, r.stale)
                /\ tracked' = IF r.mark THEN "finished" ELSE tracked
                /\ UNCHANGED <<isMonitoring, timeLeft>>
    /\ UNCHANGED <<timers, ticks, call>>

\* startMonitoring without setSpeedHistory([])
ResetHistoryMissing == UNCHANGED <<speedHistory, pushed, origin>>

\* setSpeedHistory([])
ResetHistory ==
    /\ speedHistory' = << >>
    /\ pushed' = 0
    /\ origin' = << >>

\* startMonitoring whose startCountdown does not keep the timer's id
startMonitoringDropsCountdownId ==
    /\ ~isMonitoring
    /\ isMonitoring' = TRUE
    /\ lastComment' = "Starting speed check..."
    /\ currentIcon' = "arrows"
    /\ ResetHistory
    /\ BeginMeasureSpeed(MarkStale(runs))
    /\ LET i == FreshTimer(LiveTimers)
           c == FreshTimer(LiveTimers \cup {i})
       IN  /\ intervalTimers' = intervalTimers \cup {i}
           /\ intervalRef' = Some(i)
           /\ timeLeft' = checkIntervalSeconds
           /\ countdownTimers' =
                  [id \in DOMAIN countdownTimers \cup {c} |->
                      IF id = c THEN checkIntervalSeconds - 1
                      ELSE countdownTimers[id]]
           /\ countdownRef' = countdownRef
    /\ ticks' = 0
    /\ UNCHANGED <<currentSpeed, tracked, call>>

\* onClick of "Start Monitoring", rendered only while !isMonitoring
startMonitoring ==
    /\ ~isMonitoring
    /\ isMonitoring' = TRUE
    /\ lastComment' = "Starting speed check..."
    /\ currentIcon' = "arrows"
    /\ ResetHistory
    /\ BeginMeasureSpeed(MarkStale(runs))
    /\ LET i == FreshTimer(LiveTimers)
           c == FreshTimer(LiveTimers \cup {i})
       IN  /\ intervalTimers' = intervalTimers \cup {i}
           /\ intervalRef' = Some(i)
           \* startCountdown: updateTimer() once, then every second
           /\ timeLeft' = checkIntervalSeconds
           /\ countdownTimers' =
                  [id \in DOMAIN countdownTimers \cup {c} |->
                      IF id = c THEN checkIntervalSeconds - 1
                      ELSE countdownTimers[id]]
           /\ countdownRef' = Some(c)
    /\ ticks' = 0
    /\ UNCHANGED <<currentSpeed, tracked, call>>

\* Cleared without the clearInterval call
ClearedNothing(ref, live) == live

\* clearInterval(ref.current) when ref.current is set
Cleared(ref, live) == IF ref = null THEN live ELSE live \ {ref[1]}

\* stopMonitoring without clearInterval(countdownRef.current)
stopMonitoringKeepsCountdown ==
    /\ isMonitoring
    /\ isMonitoring' = FALSE
    /\ intervalTimers' = Cleared(intervalRef, intervalTimers)
    /\ intervalRef' = null
    /\ countdownRef' = null
    /\ currentSpeed' = null
    /\ lastComment' = "Monitoring paused."
    /\ currentIcon' = "pause"
    /\ timeLeft' = checkIntervalSeconds
    /\ ticks' = 0
    /\ UNCHANGED <<isLoading, speedHistory, runs, pushed, origin, tracked, call,
                   countdownTimers>>

\* onClick of "Stop Monitoring", rendered only while isMonitoring
stopMonitoring ==
    /\ isMonitoring
    /\ isMonitoring' = FALSE
    /\ intervalTimers' = Cleared(intervalRef, intervalTimers)
    /\ countdownTimers' =
           [id \in Cleared(countdownRef, DOMAIN countdownTimers) |->
               countdownTimers[id]]
    /\ intervalRef' = null
    /\ countdownRef' = null
    /\ currentSpeed' = null
    /\ lastComment' = "Monitoring paused."
    /\ currentIcon' = "pause"
    /\ timeLeft' = checkIntervalSeconds
    /\ ticks' = 0
    /\ UNCHANGED <<isLoading, speedHistory, runs, pushed, origin, tracked, call>>

\* A live measurement timer fires: measureSpeed()
MeasureTick(id) ==
    /\ id \in intervalTimers
    /\ BeginMeasureSpeed(runs)
    /\ UNCHANGED <<isMonitoring, currentSpeed, lastComment, timeLeft,
                   currentIcon, speedHistory, timers, pushed, origin, ticks,
                   tracked, call>>

\* CountdownTick whose closure starts over from the full interval
CountdownTickWrapsToFull(id) ==
    /\ id \in DOMAIN countdownTimers
    /\ timeLeft' = countdownTimers[id]
    /\ countdownTimers' =
           [countdownTimers EXCEPT
               ![id] = IF countdownTimers[id] - 1 < 0
                       THEN checkIntervalSeconds
                       ELSE countdownTimers[id] - 1]
    /\ ticks' = ticks + 1
    /\ UNCHANGED <<isMonitoring, currentSpeed, lastComment, isLoading,
                   currentIcon, speedHistory, intervalRef, countdownRef,
                   intervalTimers, runs, pushed, origin, tracked, call>>

\* A live countdown timer fires: updateTimer()
CountdownTick(id) ==
    /\ id \in DOMAIN countdownTimers
    /\ timeLeft' = countdownTimers[id]
    /\ countdownTimers' =
           [countdownTimers EXCEPT
               ![id] = IF countdownTimers[id] - 1 < 0
                       THEN checkIntervalSeconds - 1
                       ELSE countdownTimers[id] - 1]
    /\ ticks' = ticks + 1
    /\ UNCHANGED <<isMonitoring, currentSpeed, lastComment, isLoading,
                   currentIcon, speedHistory, intervalRef, countdownRef,
                   intervalTimers, runs, pushed, origin, tracked, call>>

\* the sum of a list of samples
RECURSIVE Sum(_)
Sum(s) == IF s = << >> THEN 0 ELSE Head(s) + Sum(Tail(s))

\* getAverageSpeed that counts currentSpeed as one more sample
getAverageSpeedCountsCurrent ==
    IF currentSpeed = null THEN null
    ELSE LET n == Len(speedHistory) + 1
         IN  Some((2 * (Sum(speedHistory) + currentSpeed[1]) + n) \div (2 * n))

\* getAverageSpeed: currentSpeed when the history is empty, else
\* Number((sum / speedHistory.length).toFixed(2)), halves up
getAverageSpeed ==
    IF speedHistory = << >> THEN currentSpeed
    ELSE LET n == Len(speedHistory)
         IN  Some((2 * Sum(speedHistory) + n) \div (2 * n))

\* the "Average: ..." line, rendered when speedHistory.length > 1
AverageShown == IF Len(speedHistory) > 1 THEN getAverageSpeed ELSE null

----------------------------------------------------------------------------
(* The monitor under every interleaving of clicks, timers and responses    *)

\* download times (ms) the network may take for a probe
Durations == {1000}

Outcomes == {Rejected, HttpError} \cup {Loaded(ms) : ms \in Durations}

\* room left for one more measurement within the model's bounds
MayMeasure ==
    /\ BagCardinality(runs) < MaxRuns
    /\ Len(speedHistory) + BagCardinality(runs) < MaxSamples

Next ==
    \/ (BagCardinality(runs) < MaxRuns /\ startMonitoring)
    \/ stopMonitoring
    \/ \E id \in intervalTimers : MayMeasure /\ MeasureTick(id)
    \/ \E id \in DOMAIN countdownTimers :
           ticks < MaxTicksInterleaved /\ CountdownTick(id)
    \/ \E r \in BagToSet(runs), o \in Outcomes : ProbeDone(r, o)

Spec == Init /\ [][Next]_vars

----------------------------------------------------------------------------
(* A long session: a network that answers every probe, measurements that   *)
(* do not overlap, and no bound on the number of samples                   *)

\* what the network does to probe idx in SpecHistory
OutcomesHistory(idx) ==
    IF idx = 1 THEN {Loaded(5), Loaded(1000)} ELSE {Loaded(1000)}

NextHistory ==
    \/ (runs = EmptyBag /\ startMonitoring)
    \/ stopMonitoring
    \/ \E id \in intervalTimers : runs = EmptyBag /\ MeasureTick(id)
    \/ \E id \in DOMAIN countdownTimers :
           ticks < MaxTicksInterleaved /\ CountdownTick(id)
    \/ \E r \in BagToSet(runs) : \E o \in OutcomesHistory(r.idx) : ProbeDone(r, o)

SpecHistory == Init /\ [][NextHistory]_vars

----------------------------------------------------------------------------
(* The pure functions, applied to every input of a bounded set             *)

\* One measurement at a time, every probe loads in one second, and the
\* countdown is followed over two full periods
NextCountdown ==
    \/ (runs = EmptyBag /\ startMonitoring)
    \/ stopMonitoring
    \/ \E id \in DOMAIN countdownTimers : ticks < MaxTicks /\ CountdownTick(id)
    \/ \E r \in BagToSet(runs) : ProbeDone(r, Loaded(1000))

SpecCountdown == Init /\ [][NextCountdown]_vars

\* samples after which no further measurement begins in SpecAverage
MaxAverageSamples == 2

\* One measurement at a time, probes failing or loading in one second, and
\* enough samples for the average line to be rendered before a failure
NextAverage ==
    \/ (runs = EmptyBag /\ startMonitoring)
    \/ stopMonitoring
    \/ \E id \in intervalTimers :
           /\ runs = EmptyBag
           /\ Len(speedHistory) <= MaxAverageSamples
           /\ MeasureTick(id)
    \/ \E id \in DOMAIN countdownTimers :
           ticks < MaxTicksInterleaved /\ CountdownTick(id)
    \/ \E r \in BagToSet(runs), o \in Outcomes : ProbeDone(r, o)

SpecAverage == Init /\ [][NextAverage]_vars

\* Probe durations in ms from under the 10 ms floor to over an hour; 2667 ms
\* puts the 1 MB probe at 2.9996 Mbps, which is shown as 3.00
WideDurations == {5, 10, 1000, 2667, 4000000}

WideOutcomes == {Rejected, HttpError} \cup {Loaded(ms) : ms \in WideDurations}

\* One measurement per session, its probes settling in every way
NextWide ==
    \/ (runs = EmptyBag /\ startMonitoring)
    \/ stopMonitoring
    \/ \E r \in BagToSet(runs), o \in WideOutcomes : ProbeDone(r, o)

SpecWide == Init /\ [][NextWide]_vars

\* One suspended measureSpeed call is singled out to be followed to its end
FollowCall(r) ==
    /\ tracked = "none"
    /\ r \in BagToSet(runs)
    /\ runs' = (runs (-) SetToBag({r})) (+) SetToBag({[r EXCEPT !.mark = TRUE]})
    /\ tracked' = "running"
    /\ UNCHANGED <<ui, timers, pushed, origin, ticks, call>>

\* measurements in flight at once and samples per session in SpecLive
MaxLiveRuns == 2
MaxLiveSamples == 1

\* The monitor with one call followed
NextLive ==
    \/ (BagCardinality(runs) < MaxLiveRuns /\ startMonitoring)
    \/ stopMonitoring
    \/ \E id \in intervalTimers :
           /\ BagCardinality(runs) < MaxLiveRuns
           /\ Len(speedHistory) + BagCardinality(runs) < MaxLiveSamples
           /\ MeasureTick(id)
    \/ \E id \in DOMAIN countdownTimers :
           ticks < MaxTicksInterleaved /\ CountdownTick(id)
    \/ \E r \in BagToSet(runs), o \in Outcomes : ProbeDone(r, o)
    \/ \E r \in BagToSet(runs) : FollowCall(r)

\* the fetch the followed call awaits settles and the call is resumed
FollowedProbeSettles ==
    \E r \in BagToSet(runs) : r.mark /\ \E o \in Outcomes : ProbeDone(r, o)

\* Every fetch is taken to resolve or reject eventually, and the event loop
\* then resumes the call awaiting it
SpecLive == Init /\ [][NextLive]_vars /\ WF_vars(FollowedProbeSettles)

Component == <<ui, timers, runs, pushed, origin, ticks, tracked>>

Pending(fn, arg) == [fn |-> fn, arg |-> arg, done |-> FALSE, ret |-> null]

Returned(c, ret) == [fn |-> c.fn, arg |-> c.arg, done |-> TRUE, ret |-> ret]

\* findTierForSpeed over every speed of (0 - MaxNegativeArg)..MaxSpeedArg (0.01 Mbps)
InitTier ==
    /\ InitComponent
    /\ call \in {Pending("findTierForSpeed", v) : v \in (0 - MaxNegativeArg)..MaxSpeedArg}

CallFindTier ==
    /\ call.fn = "findTierForSpeed"
    /\ ~call.done
    /\ call' = Returned(call, findTierForSpeed(call.arg))
    /\ UNCHANGED Component

SpecTier == InitTier /\ [][CallFindTier]_vars

\* probe speeds (10^-4 Mbps) the median is taken of in SpecMedian:
\* 2, 4, 6, 1.2345 and 1000 Mbps
SampleSpeeds == {20000, 40000, 60000, 12345, TooFastSpeed}

\* the lists measureSpeed can have collected when its loop ends non-empty:
\* one to Len(testFiles) speeds, in arrival order
SampleLists ==
    UNION {[1..n -> SampleSpeeds] : n \in 1..Len(testFiles)}

InitMedian ==
    /\ InitComponent
    /\ call \in {Pending("medianSpeed", l) : l \in SampleLists}

CallMedian ==
    /\ call.fn = "medianSpeed"
    /\ ~call.done
    /\ call' = Returned(call, [twice |-> medianSpeed2(call.arg),
                               final |-> finalSpeed(call.arg)])
    /\ UNCHANGED Component

SpecMedian == InitMedian /\ [][CallMedian]_vars

----------------------------------------------------------------------------
(* public/sounds/README.md, "File Path Reference"                          *)

\* the speeds (Mbps) the README gives for each file; `to` is included here
\* so that a speed on a boundary may take the file of either side
readmeFiles ==
    << [file |-> "/sounds/error.mp3",     from |-> 0,  to |-> 1],
       [file |-> "/sounds/slow.mp3",      from |-> 1,  to |-> 2],
       [file |-> "/sounds/okay.mp3",      from |-> 2,  to |-> 5],
       [file |-> "/sounds/good.mp3",      from |-> 5,  to |-> 20],
       [file |-> "/sounds/unlimited.mp3", from |-> 20, to |-> Infinity] >>

\* the files the README assigns to the speed v (0.01 Mbps)
ReadmeAudio(v) ==
    {readmeFiles[i].file : i \in
        {k \in 1..Len(readmeFiles) :
            /\ readmeFiles[k].from * Scale <= v
            /\ \/ readmeFiles[k].to = Infinity
               \/ v <= readmeFiles[k].to * Scale}}

----------------------------------------------------------------------------
(* Claims                                                                  *)

\* C1: for every speed v, findTierForSpeed(v) returns a tier of speedTiers
\* whose half-open range [minSpeed, maxSpeed) contains v, that tier is the
\* only tier whose range contains v, null is returned exactly when no range
\* contains v, and a v equal to a tier's minSpeed gets that very tier.
C1_TierLookup ==
    (call.fn = "findTierForSpeed" /\ call.done) =>
        LET v == call.arg
            ret == call.ret
            Holds(t) == /\ t.minSpeed <= v
                        /\ (t.maxSpeed = Infinity \/ v < t.maxSpeed)
            containing == {i \in 1..Len(speedTiers) : Holds(speedTiers[i])}
        IN  /\ (ret = null) <=> (containing = {})
            /\ ret # null =>
                   /\ \E i \in containing : ret[1] = speedTiers[i]
                   /\ Cardinality(containing) = 1
            /\ \A i \in 1..Len(speedTiers) :
                   v = speedTiers[i].minSpeed => ret = Some(speedTiers[i])

\* C1 witness: the lookup of the boundary 3 Mbps returned the tier that
\* starts at 3 Mbps
C1_Witness ==
    /\ call.fn = "findTierForSpeed" /\ call.done
    /\ call.arg = 3 * Scale
    /\ call.ret # null
    /\ call.ret[1].minSpeed = 3 * Scale

\* C5 (as claimed): for every speed v >= 0 the audio file of
\* findTierForSpeed(v) is a file the README assigns to v, and no two tiers
\* share an audio file.
C5_AudioFollowsReadme ==
    /\ \A i, j \in 1..Len(speedTiers) :
           speedTiers[i].audioSrc = speedTiers[j].audioSrc => i = j
    /\ (call.fn = "findTierForSpeed" /\ call.done /\ call.arg >= 0) =>
           /\ call.ret # null
           /\ call.ret[1].audioSrc \in ReadmeAudio(call.arg)

\* C2: the aggregate of a non-empty list of probe speeds is its median: the
\* middle order statistic for an odd count, the mean of the two middle order
\* statistics for an even count, whatever the arrival order; [2, 4, 6] gives
\* 4 and [2, 4] gives 3.
C2_Median ==
    (call.fn = "medianSpeed" /\ call.done) =>
        LET s == call.arg
            n == Len(s)
            Below(x)  == Cardinality({i \in 1..n : s[i] < x})
            AtMost(x) == Cardinality({i \in 1..n : s[i] <= x})
            \* the k-th smallest element of s
            Kth(k) == CHOOSE x \in Range(s) : Below(x) < k /\ k <= AtMost(x)
        IN  /\ n % 2 = 1 => call.ret.twice = 2 * Kth((n + 1) \div 2)
            /\ n % 2 = 0 => call.ret.twice = Kth(n \div 2) + Kth(n \div 2 + 1)
            /\ (n = 3 /\ Range(s) = {20000, 40000, 60000}) =>
                   call.ret.final = 4 * Scale
            /\ (n = 2 /\ Range(s) = {20000, 40000}) =>
                   call.ret.final = 3 * Scale

\* C2 witness: the median of [6, 2, 4], which arrived unsorted, is 4
C2_Witness ==
    /\ call.fn = "medianSpeed" /\ call.done
    /\ call.arg = <<60000, 20000, 40000>>
    /\ call.ret.twice = 2 * 40000

----------------------------------------------------------------------------
(* Steps, as seen from the two states of a transition                      *)

\* the click on "Stop Monitoring" has been handled
StopStep == isMonitoring /\ ~isMonitoring'

\* the click on "Start Monitoring" has been handled
StartStep == ~isMonitoring /\ isMonitoring'

\* exactly one measurement has started and none has finished
OneMeasurementStarted ==
    \E inFlight \in {runs, MarkStale(runs)} :
        runs' = inFlight (+) SetToBag({NewRun})

\* every way a probe settles in one of the specifications
AnyOutcome == Outcomes \cup UNION {OutcomesHistory(i) : i \in 1..Len(testFiles)}

\* the last probe of the run r settles with o and measureSpeed finishes
Finishes(r, o) == r.idx = Len(testFiles) /\ ProbeDone(r, o)

\* the probe that settles with o has failed
Fails(r, o) == measureSingleSpeed(testFiles[r.idx], o).threw

\* the run r ends with o and not one of its probes succeeded
AllProbesFailed(r, o) == r.speeds = << >> /\ Fails(r, o)

\* the run r ends with o and at least one of its probes failed
SomeProbeFailed(r, o) == Len(r.speeds) < r.idx - 1 \/ Fails(r, o)

\* the tier whose audio is /sounds/error.mp3
ErrorTier == CHOOSE t \in Range(speedTiers) : t.audioSrc = "/sounds/error.mp3"

\* speed 0 is shown with the error tier's comment and icon
ErrorDisplay ==
    /\ currentSpeed = Some(0)
    /\ lastComment = ErrorTier.comment
    /\ currentIcon = ErrorTier.icon

\* both timers of the session are live and held by the refs
TimersArmed ==
    /\ intervalRef # null /\ intervalRef[1] \in intervalTimers
    /\ countdownRef # null /\ countdownRef[1] \in DOMAIN countdownTimers

\* C3: in the state right after stopMonitoring both refs are null, no
\* measurement timer and no countdown timer is left to fire, currentSpeed
\* is null, isMonitoring is false and timeLeft is 30.
C3_StopClearsTimers ==
    [][StopStep =>
          /\ intervalRef' = null /\ countdownRef' = null
          /\ intervalTimers' = {} /\ DOMAIN countdownTimers' = {}
          /\ currentSpeed' = null
          /\ ~isMonitoring'
          /\ timeLeft' = 30]_vars

\* C3 witness: monitoring was stopped while a measurement was in flight
C3_Witness ==
    /\ ~isMonitoring /\ lastComment = "Monitoring paused."
    /\ intervalRef = null /\ countdownRef = null
    /\ runs # EmptyBag

\* C4 (as claimed): whenever a probe of a measurement fails, the
\* measurement finishes with currentSpeed = 0 and the error tier's comment
\* and icon.
C4_AnyFailureShowsError ==
    [][\A r \in BagToSet(runs) : \A o \in AnyOutcome :
          (Finishes(r, o) /\ SomeProbeFailed(r, o)) => ErrorDisplay']_vars

\* C4 (amended): whenever every probe of a measurement fails, the
\* measurement finishes with currentSpeed = 0 and with the comment and icon
\* of the error tier, the tier whose range contains 0.
C4_AllFailedShowsError ==
    [][\A r \in BagToSet(runs) : \A o \in AnyOutcome :
          (Finishes(r, o) /\ AllProbesFailed(r, o)) =>
              /\ ErrorDisplay'
              /\ TierMatches(ErrorTier, 0)
              /\ lastComment' = "Are you serious right now?"]_vars

\* C4 witness: a measurement has failed and the error tier is displayed
C4_Witness == ErrorDisplay /\ ~isLoading /\ runs = EmptyBag

\* C7 (as claimed): whenever isMonitoring is false, speedHistory is empty.
C7_HistoryEmptyWhenIdle == ~isMonitoring => speedHistory = << >>

\* C7 (amended): the samples are discarded when the next session starts,
\* not when monitoring stops: stopMonitoring leaves speedHistory as it is
\* and startMonitoring empties it.
C7_HistoryDiscardedAtStart ==
    [][/\ StopStep => speedHistory' = speedHistory
       /\ StartStep => speedHistory' = << >>]_vars

\* C7 witness: monitoring is stopped and the samples of the session are
\* still there
C7_Witness ==
    /\ ~isMonitoring /\ lastComment = "Monitoring paused."
    /\ speedHistory # << >>

\* C8: stopMonitoring cancels no measurement in flight, and a measurement
\* that finishes while isMonitoring is false still writes currentSpeed,
\* lastComment and currentIcon (and speedHistory when a probe succeeded).
C8_CompletionAfterStop ==
    [][/\ StopStep => runs' = runs
       /\ \A r \in BagToSet(runs) : \A o \in AnyOutcome :
             (~isMonitoring /\ Finishes(r, o)) =>
                 /\ ~isMonitoring'
                 /\ currentSpeed' # null
                 /\ lastComment' # "Monitoring paused."
                 /\ currentIcon' # "pause"
                 /\ ~AllProbesFailed(r, o) =>
                        /\ speedHistory' # << >>
                        /\ currentSpeed' =
                               Some(speedHistory'[Len(speedHistory')])]_vars

\* C8 witness: monitoring is off, yet a speed and a tier comment are shown
C8_Witness ==
    /\ ~isMonitoring
    /\ currentSpeed # null
    /\ lastComment # "Monitoring paused."
    /\ speedHistory # << >>

\* C9: a measurement in which every probe fails leaves isMonitoring and
\* both timers as they were (armed, while monitoring) and starts no new
\* measurement: the number of measurements in flight drops by one, and a
\* measurement is begun only by startMonitoring or by a timer tick.
C9_FailureNotFatalNotRetried ==
    /\ [][\A r \in BagToSet(runs) : \A o \in AnyOutcome :
          (Finishes(r, o) /\ AllProbesFailed(r, o)) =>
              /\ isMonitoring' = isMonitoring
              /\ timers' = timers
              /\ isMonitoring => TimersArmed'
              /\ runs' = runs (-) SetToBag({r})
              /\ BagCardinality(runs') = BagCardinality(runs) - 1]_vars
    /\ [][BagCardinality(runs') > BagCardinality(runs) =>
             (StartStep \/ \E id \in intervalTimers : MeasureTick(id))]_vars

\* C9 witness: the measurement failed, monitoring goes on with both timers
\* armed and nothing in flight
C9_Witness ==
    /\ isMonitoring /\ ErrorDisplay /\ TimersArmed
    /\ runs = EmptyBag

\* C10: startMonitoring empties speedHistory and starts one measurement,
\* every tick of the measurement timer happens while monitoring and starts
\* exactly one measurement, and nothing else starts one: no measurement
\* starts while isMonitoring stays false.
C10_MeasurementsOnStartAndTick ==
    [][/\ StartStep => (speedHistory' = << >> /\ OneMeasurementStarted)
       /\ \A id \in intervalTimers :
             MeasureTick(id) => (isMonitoring /\ OneMeasurementStarted)
       /\ BagCardinality(runs') > BagCardinality(runs) =>
             /\ StartStep \/ \E id \in intervalTimers : MeasureTick(id)
             /\ isMonitoring']_vars

\* C10 witness: a sample of this session is in and the timer has started a
\* further measurement
C10_Witness ==
    /\ isMonitoring
    /\ speedHistory # << >>
    /\ runs = SetToBag({NewRun})

\* C6: speedHistory never holds more than 10 samples, and every successful
\* measurement puts its result last and keeps the samples before it in
\* order, dropping the oldest one when there were 10 already.
C6_HistoryKeepsLastTen ==
    /\ [](Len(speedHistory) <= 10)
    /\ [][\A r \in BagToSet(runs) : \A o \in AnyOutcome :
             (Finishes(r, o) /\ ~AllProbesFailed(r, o)) =>
                 LET old  == speedHistory
                     new  == speedHistory'
                     drop == IF Len(old) = 10 THEN 1 ELSE 0
                 IN  /\ Len(new) = Len(old) + 1 - drop
                     /\ Some(new[Len(new)]) = currentSpeed'
                     /\ \A i \in 1..(Len(new) - 1) : new[i] = old[i + drop]]_vars

\* C6 witness: an eleventh sample has been pushed, the list holds 10 and
\* its samples are not all alike
C6_Witness ==
    /\ pushed > HistoryLimit
    /\ Len(speedHistory) = HistoryLimit
    /\ speedHistory[1] # speedHistory[HistoryLimit]

\* C11: at most one network request is in flight at any time; every call of
\* measureSpeed in flight awaits exactly one fetch, so at most one call is in
\* flight and no measurement begins while another has a probe outstanding.
C11_OneRequestInFlight == BagCardinality(runs) <= 1

\* the speeds of the probes of run r that succeeded, once o has settled
Successes(r, o) ==
    IF Fails(r, o) THEN r.speeds
    ELSE Append(r.speeds, measureSingleSpeed(testFiles[r.idx], o).value)

\* the median (doubled) of a non-empty list by order statistics
OrderMedian2(s) ==
    LET n == Len(s)
        Below(x)  == Cardinality({i \in 1..n : s[i] < x})
        AtMost(x) == Cardinality({i \in 1..n : s[i] <= x})
        Kth(k) == CHOOSE x \in Range(s) : Below(x) < k /\ k <= AtMost(x)
    IN  IF n % 2 = 1 THEN 2 * Kth((n + 1) \div 2)
        ELSE Kth(n \div 2) + Kth(n \div 2 + 1)

\* C12: a failed probe does not end the measurement: the call goes on to the
\* next probe with the speeds it had; when the last probe has settled and at
\* least one probe succeeded, currentSpeed is the rounded median of the
\* successful probes alone and is the newest sample of speedHistory;
\* currentSpeed is set to 0 with no sample added only when all three failed.
C12_FailedProbeSkipped ==
    [][\A r \in BagToSet(runs) : \A o \in AnyOutcome :
          ProbeDone(r, o) =>
              IF r.idx < Len(testFiles)
              THEN /\ BagCardinality(runs') = BagCardinality(runs)
                   /\ \E q \in BagToSet(runs') :
                          q.idx = r.idx + 1 /\ q.speeds = Successes(r, o)
                   /\ Len(Successes(r, o)) =
                          Len(r.speeds) + (IF Fails(r, o) THEN 0 ELSE 1)
                   /\ currentSpeed' = currentSpeed
                   /\ speedHistory' = speedHistory
              ELSE LET succ == Successes(r, o)
                   IN  IF succ # << >>
                       THEN /\ currentSpeed' = Some(toFixed2(OrderMedian2(succ)))
                            /\ speedHistory' # << >>
                            /\ Some(speedHistory'[Len(speedHistory')]) = currentSpeed'
                       ELSE /\ currentSpeed' = Some(0)
                            /\ speedHistory' = speedHistory]_vars

\* C12 witness: the 500 KB and 2 MB probes succeeded (4 and 16 Mbps), the
\* 1 MB probe failed, and the measurement showed and stored 10 Mbps
C12_Witness ==
    /\ currentSpeed = Some(10 * Scale)
    /\ speedHistory # << >>
    /\ speedHistory[Len(speedHistory)] = 10 * Scale
    /\ lastComment = playMemeAudio(10 * Scale).lastComment

\* the comment and icon the catch block of measureSpeed assigns
FallbackDisplay ==
    /\ lastComment = "Connection error - check your internet!"
    /\ currentIcon = "red circle"

\* C13: when a measurement finishes with every probe failed, lastComment
\* and currentIcon are the fallback comment and icon assigned in the catch
\* block of measureSpeed.
C13_AllFailedShowsFallback ==
    [][\A r \in BagToSet(runs) : \A o \in AnyOutcome :
          (Finishes(r, o) /\ AllProbesFailed(r, o)) => FallbackDisplay']_vars

\* the countdown claimed for k firings of the countdown timer
CountdownAfter(k) ==
    IF k = 0 THEN checkIntervalSeconds
    ELSE (checkIntervalSeconds - (k % checkIntervalSeconds))
             % checkIntervalSeconds

\* C14: while monitoring, the countdown shown after k firings of the
\* countdown timer since startMonitoring is 30 for k = 0 and
\* (30 - (k mod 30)) mod 30 for k >= 1; it is always within 0..30, and a
\* firing takes it down by one or from 0 to 29.
C14_Countdown ==
    /\ [](timeLeft \in 0..checkIntervalSeconds)
    /\ [](isMonitoring => timeLeft = CountdownAfter(ticks))
    /\ [][(isMonitoring /\ ticks' = ticks + 1) =>
             timeLeft' = IF timeLeft = 0 THEN checkIntervalSeconds - 1
                         ELSE timeLeft - 1]_vars

\* C14 witness: the countdown has shown 0 at the 30th firing and 29 at the
\* 31st
C14_Witness ==
    /\ isMonitoring
    /\ ticks = checkIntervalSeconds + 1
    /\ timeLeft = checkIntervalSeconds - 1

\* C15: with Start offered only while not monitoring and Stop only while
\* monitoring, intervalRef is non-null iff countdownRef is non-null iff
\* isMonitoring; at most one measurement timer and at most one countdown
\* timer are live, and a live timer is the one its ref holds.
C15_TimersWhileMonitoring ==
    /\ (intervalRef # null) <=> isMonitoring
    /\ (countdownRef # null) <=> isMonitoring
    /\ Cardinality(intervalTimers) <= 1
    /\ Cardinality(DOMAIN countdownTimers) <= 1
    /\ intervalTimers = IF intervalRef = null THEN {} ELSE {intervalRef[1]}
    /\ DOMAIN countdownTimers =
           IF countdownRef = null THEN {} ELSE {countdownRef[1]}

\* C15 witness: monitoring was stopped and started again, both timers are
\* set and a measurement of the earlier session is still in flight
C15_Witness ==
    /\ isMonitoring
    /\ TimersArmed
    /\ \E r \in BagToSet(runs) : r.stale

\* C16: isLoading is true exactly while some measureSpeed call has started
\* and has not reached its finally block.
C16_LoadingIffMeasuring == isLoading <=> (runs # EmptyBag)

\* C17: while monitoring, every sample of speedHistory is the result of a
\* measurement that began after the most recent startMonitoring.
C17_HistoryOfCurrentSession ==
    isMonitoring =>
        /\ Len(origin) = Len(speedHistory)
        /\ \A i \in 1..Len(origin) : ~origin[i]

\* C18: a measurement that finishes with every probe failed shows 0 as
\* currentSpeed and leaves speedHistory and the displayed average as they
\* were; a sample is added only by a measurement with a successful probe.
C18_FailureKeepsHistory ==
    /\ [][\A r \in BagToSet(runs) : \A o \in AnyOutcome :
             (Finishes(r, o) /\ AllProbesFailed(r, o)) =>
                 /\ currentSpeed' = Some(0)
                 /\ speedHistory' = speedHistory
                 /\ AverageShown' = AverageShown]_vars
    /\ [][Len(speedHistory') > Len(speedHistory) =>
             \E r \in BagToSet(runs) : \E o \in AnyOutcome :
                 Finishes(r, o) /\ ~AllProbesFailed(r, o)]_vars

\* C18 witness: two samples of 4 and 16 Mbps are averaged to 10 Mbps on
\* the display while a failed measurement shows 0
C18_Witness ==
    /\ currentSpeed = Some(0)
    /\ speedHistory = <<4 * Scale, 16 * Scale>>
    /\ AverageShown = Some(10 * Scale)

\* C19: provided every fetch settles, a started measureSpeed call reaches its
\* finally block, whether probes succeeded or all failed, and whenever no
\* call is in progress isLoading is false.
C19_MeasurementFinishes ==
    /\ (tracked = "running") ~> (tracked = "finished")
    /\ [](runs = EmptyBag => ~isLoading)

\* C19 witness: the followed call has finished with every probe failed, no
\* call is left and the loading flag is down
C19_Witness ==
    /\ tracked = "finished"
    /\ runs = EmptyBag
    /\ currentSpeed = Some(0)
    /\ ~isLoading

\* C20: playMemeAudio never takes its no-tier branch: every probe speed is
\* 1000 Mbps or positive, every speed shown is >= 0 and lies in a tier, and
\* lastComment is never "No comment for this speed.".
C20_NoTierFallbackUnreachable ==
    /\ lastComment # "No comment for this speed."
    /\ currentIcon # "question"
    /\ \A r \in BagToSet(runs) : \A i \in 1..Len(r.speeds) :
           r.speeds[i] = TooFastSpeed \/ r.speeds[i] > 0
    /\ currentSpeed # null =>
           /\ currentSpeed[1] >= 0
           /\ findTierForSpeed(currentSpeed[1]) # null

\* C20 witness: three probes of over an hour each succeeded with a median
\* of 0.002 Mbps, shown and stored as 0.00 with the first tier's comment
C20_Witness ==
    /\ currentSpeed = Some(0)
    /\ speedHistory = <<0>>
    /\ lastComment = ErrorTier.comment

====
